---------------------------- MODULE Spec2Model ----------------------------
(***************************************************************************)
(* Model of the claude_memory storage layer: the pydantic domain model     *)
(* (models.py), the codec between Memory objects and Neo4j property maps   *)
(* (MemoryNode.to_neo4j_properties, MemoryDatabase._neo4j_to_memory) and   *)
(* the MemoryDatabase operations over a property graph (database.py).      *)
(*                                                                         *)
(* Python values are modelled as tagged records [kind, v]; floats in the   *)
(* range 0.0 .. 1.0 are modelled in tenths (0.9 is 9); text strings are    *)
(* tuples of one-character strings so that strip, lower, len and CONTAINS  *)
(* are computed as Python and Cypher compute them.                         *)
(***************************************************************************)
EXTENDS Integers, Sequences, FiniteSets, TLC

VARIABLES
    nodes,      \* the graph's Memory nodes: id -> property map
    edges,      \* the graph's relationships: set of [id, from, to, type, props]
    clock,      \* the reading datetime.utcnow() gives
    uuidSeq,    \* how many memory ids uuid.uuid4() has generated
    relSeq,     \* how many relationship ids uuid.uuid4() has generated
    last,       \* the last MemoryDatabase call: its arguments and its outcome
    deleted,    \* ids delete_memory was called on and that were not stored since
    codec,      \* a Memory on its way through construction, encoding, decoding
    schema      \* the connection's driver and a run of initialize_schema

vars == <<nodes, edges, clock, uuidSeq, relSeq, last, deleted, codec, schema>>

---------------------------------------------------------------------------
(* Bounds of the model                                                     *)

MaxClock == 1
MaxUuid == 1
MaxRels == 2
MaxTags == 2
MaxTagLength == 2

---------------------------------------------------------------------------
(* Python values                                                           *)

PyNone == [kind |-> "none"]
PyStr(s) == [kind |-> "str", v |-> s]
PyName(s) == [kind |-> "name", v |-> s]
PyFloat(n) == [kind |-> "float", v |-> n]
PyInt(n) == [kind |-> "int", v |-> n]
PyList(l) == [kind |-> "list", v |-> l]
PyDict(d) == [kind |-> "dict", v |-> d]
PyDatetime(local, tz) == [kind |-> "datetime", v |-> [local |-> local, tz |-> tz]]

\* str(value) of a list or a dict: a string holding the value's repr
PyRepr(x) == [kind |-> "repr", v |-> x]

IsNone(x) == x.kind = "none"
IsStr(x) == x.kind \in {"str", "name", "iso", "repr"}
IsNumber(x) == x.kind \in {"float", "int"}

\* Python truthiness (bool(x)) of the values the code tests
Truthy(x) ==
    CASE x.kind = "none" -> FALSE
      [] x.kind = "str" -> Len(x.v) > 0
      [] x.kind = "list" -> Len(x.v) > 0
      [] x.kind = "dict" -> DOMAIN x.v # {}
      [] x.kind \in {"float", "int"} -> x.v # 0
      [] OTHER -> TRUE

\* dict.get(key, default)
DictGet(d, k, default) == IF k \in DOMAIN d THEN d[k] ELSE default

Whitespace == {" "}

RECURSIVE lstrip(_)
lstrip(s) == IF s # <<>> /\ Head(s) \in Whitespace THEN lstrip(Tail(s)) ELSE s

RECURSIVE rstrip(_)
rstrip(s) ==
    IF s # <<>> /\ s[Len(s)] \in Whitespace THEN rstrip(SubSeq(s, 1, Len(s) - 1)) ELSE s

\* str.strip()
strip(s) == rstrip(lstrip(s))

LowerChar(c) ==
    CASE c = "A" -> "a"
      [] c = "B" -> "b"
      [] c = "F" -> "f"
      [] OTHER -> c

\* str.lower()
lower(s) == [i \in 1..Len(s) |-> LowerChar(s[i])]

\* Cypher's CONTAINS (and Python's in) on strings: sub occurs in s
Contains(s, sub) ==
    \E i \in 0..(Len(s) - Len(sub)) : SubSeq(s, i + 1, i + Len(sub)) = sub

---------------------------------------------------------------------------
(* datetime: a local wall time and an optional UTC offset                  *)

Naive == <<>>
Aware(off) == <<off>>

\* the point in time a datetime denotes; a naive datetime is UTC (utcnow)
Instant(dt) == dt.local - (IF dt.tz = Naive THEN 0 ELSE dt.tz[1])

utcnow(t) == PyDatetime(t, Naive)

OffsetSuffix(off) ==
    CASE off = 0 -> "+00:00"
      [] off = 1 -> "+01:00"
      [] off = 2 -> "+02:00"

SuffixOffset(sfx) ==
    CASE sfx = "+00:00" -> 0
      [] sfx = "+01:00" -> 1
      [] sfx = "+02:00" -> 2

\* datetime.isoformat(): the local time's digits, then the offset if aware
isoformat(x) ==
    [kind |-> "iso",
     v |-> [local |-> x.v.local,
            suffix |-> IF x.v.tz = Naive THEN "" ELSE OffsetSuffix(x.v.tz[1])]]

\* datetime.fromisoformat(): raises on None and on a string that is no ISO date
fromisoformat(x) ==
    IF x.kind = "iso"
    THEN [ok |-> TRUE,
          v |-> PyDatetime(x.v.local,
                           IF x.v.suffix = "" THEN Naive
                           ELSE Aware(SuffixOffset(x.v.suffix)))]
    ELSE [ok |-> FALSE, v |-> PyNone]

\* rank of an offset suffix in string order: "" < "+00:00" < "+01:00" < "+02:00"
SuffixRank(sfx) == IF sfx = "" THEN 0 ELSE 1 + SuffixOffset(sfx)

\* string order (Cypher's ORDER BY on a string property) of two ISO strings
IsoStringLess(a, b) ==
    \/ a.v.local < b.v.local
    \/ a.v.local = b.v.local /\ SuffixRank(a.v.suffix) < SuffixRank(b.v.suffix)

---------------------------------------------------------------------------
(* models.py: the domain model and its validation                          *)

MemoryType ==
    {"task", "code_pattern", "problem", "solution", "project", "technology",
     "error", "fix", "command", "file_context", "workflow", "general"}

RelationshipType ==
    {"CAUSES", "TRIGGERS", "LEADS_TO", "PREVENTS", "BREAKS",
     "SOLVES", "ADDRESSES", "ALTERNATIVE_TO", "IMPROVES", "REPLACES",
     "OCCURS_IN", "APPLIES_TO", "WORKS_WITH", "REQUIRES", "USED_IN",
     "BUILDS_ON", "CONTRADICTS", "CONFIRMS", "GENERALIZES", "SPECIALIZES",
     "SIMILAR_TO", "VARIANT_OF", "RELATED_TO", "ANALOGY_TO", "OPPOSITE_OF",
     "FOLLOWS", "DEPENDS_ON", "ENABLES", "BLOCKS", "PARALLEL_TO",
     "EFFECTIVE_FOR", "INEFFECTIVE_FOR", "PREFERRED_OVER", "DEPRECATED_BY",
     "VALIDATED_BY"}

TitleMaxLength == 200
SummaryMaxLength == 500
UnitMax == 10               \* 1.0, in tenths
DefaultImportance == 5      \* 0.5
DefaultConfidence == 8      \* 0.8
DefaultStrength == 5        \* 0.5

ContextStrFields ==
    {"project_path", "git_commit", "git_branch", "working_directory",
     "session_id", "user_id"}
ContextListFields == {"files_involved", "languages", "frameworks", "technologies"}
ContextFields ==
    ContextStrFields \cup ContextListFields \cup {"timestamp", "additional_metadata"}

\* pydantic's check of an Optional[str] field
ValidOptionalStr(x) == IsNone(x) \/ IsStr(x)

\* pydantic's check of a float field with ge=0.0, le=1.0
ValidUnitFloat(x) == IsNumber(x) /\ x.v >= 0 /\ x.v <= UnitMax

\* MemoryContext(**kw): the validated object, or the fields that failed.
\* A List[str] field takes a list only and a Dict field a dict only: a string
\* is not coerced.
MemoryContext(kw, now) ==
    LET val == [f \in ContextFields |->
                  CASE f \in ContextStrFields -> DictGet(kw, f, PyNone)
                    [] f \in ContextListFields -> DictGet(kw, f, PyList(<<>>))
                    [] f = "timestamp" -> DictGet(kw, f, utcnow(now))
                    [] f = "additional_metadata" -> DictGet(kw, f, PyDict(<<>>))]
        bad == {f \in ContextFields :
                  CASE f \in ContextStrFields -> ~ValidOptionalStr(val[f])
                    [] f \in ContextListFields -> val[f].kind # "list"
                    [] f = "timestamp" -> val[f].kind # "datetime"
                    [] f = "additional_metadata" -> val[f].kind # "dict"}
    IN  [ok |-> bad = {}, errors |-> bad, v |-> [kind |-> "MemoryContext", v |-> val]]

MemoryFields ==
    {"id", "type", "title", "content", "summary", "tags", "context", "importance",
     "confidence", "effectiveness", "usage_count", "created_at", "updated_at",
     "last_accessed"}

\* a normalisation that lowercases the kept tags without trimming them
validate_tags_untrimmed(v) ==
    LET kept == SelectSeq(v, LAMBDA tag : strip(tag) # <<>>)
    IN  [i \in 1..Len(kept) |-> lower(kept[i])]

\* Memory.validate_tags
validate_tags(v) ==
    LET kept == SelectSeq(v, LAMBDA tag : strip(tag) # <<>>)
    IN  [i \in 1..Len(kept) |-> strip(lower(kept[i]))]

\* Memory.validate_text_fields
validate_text_fields(v) == strip(v)

\* The Field(...) constraints of title and of content, which pydantic checks on
\* the value as given, before the validator above runs
ValidTitle(x) == x.kind = "str" /\ Len(x.v) >= 1 /\ Len(x.v) <= TitleMaxLength
ValidContent(x) == x.kind = "str" /\ Len(x.v) >= 1
ValidSummary(x) == IsNone(x) \/ (x.kind = "str" /\ Len(x.v) <= SummaryMaxLength)

\* Memory(**kw): the validated object, or the fields that failed.  now is the
\* reading of datetime.utcnow() the default factories take.
Memory(kw, now) ==
    LET raw == [f \in MemoryFields |->
                  CASE f = "tags" -> DictGet(kw, f, PyList(<<>>))
                    [] f = "importance" -> DictGet(kw, f, PyFloat(DefaultImportance))
                    [] f = "confidence" -> DictGet(kw, f, PyFloat(DefaultConfidence))
                    [] f = "usage_count" -> DictGet(kw, f, PyInt(0))
                    [] f \in {"created_at", "updated_at"} -> DictGet(kw, f, utcnow(now))
                    [] OTHER -> DictGet(kw, f, PyNone)]
        bad == {f \in MemoryFields :
                  CASE f = "id" -> ~ValidOptionalStr(raw[f])
                    [] f = "type" -> ~(raw[f].kind = "name" /\ raw[f].v \in MemoryType)
                    [] f = "title" -> ~ValidTitle(raw[f])
                    [] f = "content" -> ~ValidContent(raw[f])
                    [] f = "summary" -> ~ValidSummary(raw[f])
                    [] f = "tags" -> raw[f].kind # "list"
                    [] f = "context" -> ~(IsNone(raw[f]) \/ raw[f].kind = "MemoryContext")
                    [] f \in {"importance", "confidence"} -> ~ValidUnitFloat(raw[f])
                    [] f = "effectiveness" -> ~(IsNone(raw[f]) \/ ValidUnitFloat(raw[f]))
                    [] f = "usage_count" -> ~(raw[f].kind = "int" /\ raw[f].v >= 0)
                    [] f \in {"created_at", "updated_at"} -> raw[f].kind # "datetime"
                    [] f = "last_accessed" -> ~(IsNone(raw[f]) \/ raw[f].kind = "datetime")}
        val == [f \in MemoryFields |->
                  IF f \in bad THEN raw[f]
                  ELSE CASE f \in {"title", "content"} -> PyStr(validate_text_fields(raw[f].v))
                         [] f = "tags" -> PyList(validate_tags(raw[f].v))
                         [] OTHER -> raw[f]]
    IN  [ok |-> bad = {}, errors |-> bad, v |-> [kind |-> "Memory", v |-> val]]

\* RelationshipProperties(**kw).dict(), as far as the graph reads it back
RelationshipProperties(kw) ==
    LET val == [strength |-> DictGet(kw, "strength", PyFloat(DefaultStrength)),
                confidence |-> DictGet(kw, "confidence", PyFloat(DefaultConfidence))]
    IN  [ok |-> ValidUnitFloat(val.strength) /\ ValidUnitFloat(val.confidence), v |-> val]

---------------------------------------------------------------------------
(* The codec                                                               *)

BaseKeys ==
    {"id", "type", "title", "content", "tags", "importance", "confidence",
     "usage_count", "created_at", "updated_at"}

ContextKey(f) == "context_" \o f
ContextKeys == {ContextKey(f) : f \in ContextFields}
\* key[8:] of a key that starts with "context_"
ContextFieldOf(key) == CHOOSE f \in ContextFields : ContextKey(f) = key

\* the value to_neo4j_properties writes for one context field
ContextProp(value) ==
    CASE value.kind = "datetime" -> isoformat(value)
      [] value.kind \in {"list", "dict"} -> IF Truthy(value) THEN PyRepr(value) ELSE PyNone
      [] OTHER -> value

\* MemoryNode.to_neo4j_properties: m is the Memory's field map
to_neo4j_properties(m) ==
    LET base == [k \in BaseKeys |->
                   IF k \in {"created_at", "updated_at"} THEN isoformat(m[k]) ELSE m[k]]
        optKeys == {k \in {"summary", "last_accessed"} : Truthy(m[k])}
                   \cup {k \in {"effectiveness"} : ~IsNone(m[k])}
        opt == [k \in optKeys |-> IF k = "last_accessed" THEN isoformat(m[k]) ELSE m[k]]
        context_data == IF Truthy(m["context"]) THEN m["context"].v ELSE <<>>
        ctxFields == {f \in DOMAIN context_data : ~IsNone(context_data[f])}
        ctx == [k \in {ContextKey(f) : f \in ctxFields} |->
                  ContextProp(context_data[ContextFieldOf(k)])]
    IN  base @@ opt @@ ctx

\* MemoryDatabase._neo4j_to_memory: the Memory, or None when anything raises
neo4j_to_memory(node_data, now) ==
    LET typ == DictGet(node_data, "type", PyNone)
        created == fromisoformat(DictGet(node_data, "created_at", PyNone))
        updated == fromisoformat(DictGet(node_data, "updated_at", PyNone))
        hasAccessed == Truthy(DictGet(node_data, "last_accessed", PyNone))
        accessed == fromisoformat(DictGet(node_data, "last_accessed", PyNone))
        ctxKeys == {k \in DOMAIN node_data \cap ContextKeys : ~IsNone(node_data[k])}
        hasTimestamp == ContextKey("timestamp") \in ctxKeys
        timestamp == fromisoformat(DictGet(node_data, ContextKey("timestamp"), PyNone))
        context_data == [f \in {ContextFieldOf(k) : k \in ctxKeys} |->
                            IF f = "timestamp" /\ timestamp.ok THEN timestamp.v
                            ELSE node_data[ContextKey(f)]]
        context == MemoryContext(context_data, now)
        memory_data ==
            [k \in {"id", "title", "content", "summary", "effectiveness"} |->
                DictGet(node_data, k, PyNone)]
            @@ [type |-> typ,
                tags |-> DictGet(node_data, "tags", PyList(<<>>)),
                importance |-> DictGet(node_data, "importance", PyFloat(DefaultImportance)),
                confidence |-> DictGet(node_data, "confidence", PyFloat(DefaultConfidence)),
                usage_count |-> DictGet(node_data, "usage_count", PyInt(0)),
                created_at |-> created.v,
                updated_at |-> updated.v]
            @@ (IF hasAccessed THEN [last_accessed |-> accessed.v] ELSE <<>>)
            @@ (IF ctxKeys # {} THEN [context |-> context.v] ELSE <<>>)
        memory == Memory(memory_data, now)
        raised ==
            \/ ~(typ.kind = "name" /\ typ.v \in MemoryType)
            \/ ~created.ok
            \/ ~updated.ok
            \/ hasAccessed /\ ~accessed.ok
            \/ hasTimestamp /\ ~timestamp.ok
            \/ ctxKeys # {} /\ ~context.ok
            \/ ~memory.ok
    IN  IF raised THEN PyNone ELSE memory.v

---------------------------------------------------------------------------
(* The graph database, as the Cypher statements of database.py read and    *)
(* write it                                                                *)

\* Cypher's  SET m += $properties : keys of the map are overwritten, a key
\* whose value is null is removed, every other property of the node is kept
SetPlus(old, properties) ==
    LET removed == {k \in DOMAIN properties : IsNone(properties[k])}
    IN  [k \in (DOMAIN old \cup DOMAIN properties) \ removed |->
            IF k \in DOMAIN properties THEN properties[k] ELSE old[k]]

\* Cypher's  MERGE (m:Memory {id: $id}) SET m += $properties
MergeSet(g, id, properties) ==
    IF id \in DOMAIN g
    THEN [g EXCEPT ![id] = SetPlus(@, properties)]
    ELSE g @@ (id :> SetPlus([id |-> PyStr(id)], properties))

\* Cypher's  MATCH (m:Memory {id: $id}) DETACH DELETE m : the nodes left
DetachDeleteNodes(g, id) == [i \in DOMAIN g \ {id} |-> g[i]]

\* a delete that removes the outgoing relationships of the node only
DetachDeleteEdgesKeepsIncoming(es, id) == {e \in es : e.from # id}

\* ... and the relationships left: every one incident to the node goes too
DetachDeleteEdges(es, id) == {e \in es : e.from # id /\ e.to # id}

UuidDigits == <<"1", "2", "3", "4", "5", "6", "7", "8", "9">>
\* str(uuid.uuid4()): a string no earlier call has produced
uuid4(n) == <<"u", UuidDigits[n]>>
\* the same for a relationship id
relationship_uuid4(n) == <<"r", UuidDigits[n]>>

---------------------------------------------------------------------------
(* MemoryDatabase                                                          *)

\* a store that leaves updated_at as it was constructed
StampSkipped(memory, now) == memory

\* memory.updated_at = datetime.utcnow()
Stamp(memory, now) == [memory EXCEPT !["updated_at"] = utcnow(now)]

\* store_memory(memory), memory being Memory(**kw) constructed at time t
store_memory(kw, t) ==
    LET built == Memory(kw, t)
        given == built.v.v
        generate == ~Truthy(given["id"])
        id == IF generate THEN uuid4(uuidSeq + 1) ELSE given["id"].v
        memory == Stamp([given EXCEPT !["id"] = PyStr(id)], clock)
        properties == to_neo4j_properties(memory)
    IN  /\ built.ok
        /\ generate => uuidSeq < MaxUuid
        /\ nodes' = MergeSet(nodes, id, properties)
        /\ uuidSeq' = IF generate THEN uuidSeq + 1 ELSE uuidSeq
        /\ deleted' = deleted \ {id}
        /\ last' = [op |-> "store_memory", id |-> id, generated |-> generate,
                    defaults |-> DOMAIN kw \cap {"created_at", "updated_at", "usage_count"} = {},
                    constructed |-> t, stamped |-> clock, memory |-> memory,
                    result |-> PyStr(id)]
        /\ UNCHANGED <<edges, clock, relSeq, codec, schema>>

\* what get_memory(memory_id) returns in the current state
get_memory_result(memory_id) ==
    IF memory_id \in DOMAIN nodes THEN neo4j_to_memory(nodes[memory_id], clock) ELSE PyNone

get_memory(memory_id) ==
    /\ last' = [op |-> "get_memory", id |-> memory_id,
                result |-> get_memory_result(memory_id)]
    /\ UNCHANGED <<nodes, edges, clock, uuidSeq, relSeq, deleted, codec, schema>>

delete_memory(memory_id) ==
    /\ nodes' = DetachDeleteNodes(nodes, memory_id)
    /\ edges' = DetachDeleteEdges(edges, memory_id)
    /\ deleted' = deleted \cup {memory_id}
    /\ last' = [op |-> "delete_memory", id |-> memory_id,
                result |-> memory_id \in DOMAIN nodes]
    /\ UNCHANGED <<clock, uuidSeq, relSeq, codec, schema>>

\* an update that creates the node when there is none, as MERGE does
MatchSetCreates(g, id, properties) == MergeSet(g, id, properties)

\* Cypher's  MATCH (m:Memory {id: $id}) SET m += $properties
MatchSet(g, id, properties) ==
    IF id \in DOMAIN g THEN [g EXCEPT ![id] = SetPlus(@, properties)] ELSE g

\* update_memory(memory), memory being Memory(**kw) constructed at time t:
\* ValueError without an id, else whether the MATCH returned a row
update_memory(kw, t) ==
    LET built == Memory(kw, t)
        given == built.v.v
        id == given["id"].v
        memory == Stamp(given, clock)
        properties == to_neo4j_properties(memory)
    IN  /\ built.ok
        /\ IF ~Truthy(given["id"])
           THEN /\ last' = [op |-> "update_memory", given |-> given["id"], raised |-> TRUE]
                /\ nodes' = nodes
           ELSE /\ nodes' = MatchSet(nodes, id, properties)
                /\ last' = [op |-> "update_memory", given |-> given["id"], raised |-> FALSE,
                            id |-> id, constructed |-> t, stamped |-> clock,
                            memory |-> memory, result |-> id \in DOMAIN nodes]
        /\ UNCHANGED <<edges, clock, uuidSeq, relSeq, deleted, codec, schema>>

\* a match that looks for the source node only
EndpointsMatchFromOnly(from_id, to_id) == from_id \in DOMAIN nodes

\* MATCH (from:Memory {id: $from_id}) MATCH (to:Memory {id: $to_id})  has a row
EndpointsMatch(from_id, to_id) == from_id \in DOMAIN nodes /\ to_id \in DOMAIN nodes

\* create_relationship(from_memory_id, to_memory_id, relationship_type,
\* RelationshipProperties(**kw)); the edge carries the type as its label and
\* props_dict, which has no "type" key, as its properties
create_relationship(from_memory_id, to_memory_id, relationship_type, kw) ==
    LET properties == RelationshipProperties(kw)
        relationship_id == relationship_uuid4(relSeq + 1)
        props_dict == [id |-> PyStr(relationship_id),
                       strength |-> properties.v.strength,
                       confidence |-> properties.v.confidence]
        created == EndpointsMatch(from_memory_id, to_memory_id)
    IN  /\ properties.ok
        /\ relSeq < MaxRels
        /\ edges' = IF created
                    THEN edges \cup {[id |-> relationship_id, from |-> from_memory_id,
                                      to |-> to_memory_id, type |-> relationship_type,
                                      props |-> props_dict]}
                    ELSE edges
        /\ relSeq' = IF created THEN relSeq + 1 ELSE relSeq
        /\ last' = [op |-> "create_relationship", from |-> from_memory_id,
                    to |-> to_memory_id, type |-> relationship_type,
                    strength |-> properties.v.strength,
                    raised |-> ~created,
                    result |-> IF created THEN PyStr(relationship_id) ELSE PyNone]
        /\ UNCHANGED <<nodes, clock, uuidSeq, deleted, codec, schema>>

---------------------------------------------------------------------------
(* get_related_memories                                                    *)

\* the node at the other end of relationship e, seen from node n
OtherEnd(e, n) == IF e.from = n THEN e.to ELSE e.from

\* the relationships the pattern -[r:T1|T2 ...]- may use: all of them when no
\* type list is given
TypedEdges(relationship_types) ==
    IF Truthy(relationship_types)
    THEN {e \in edges : \E i \in 1..Len(relationship_types.v) : relationship_types.v[i] = e.type}
    ELSE edges

\* one more hop, in either direction, along a relationship the path has not
\* used yet (Cypher never repeats a relationship within one path)
ExtendPaths(paths, es) ==
    {[end |-> OtherEnd(e, p.end), first |-> p.first, used |-> p.used \cup {e.id}] :
        <<p, e>> \in {<<q, f>> \in paths \X es :
                        f.id \notin q.used /\ (f.from = q.end \/ f.to = q.end)}}

\* the paths of exactly k relationships from start
RECURSIVE PathsOfLength(_, _, _)
PathsOfLength(start, es, k) ==
    IF k = 1
    THEN {[end |-> OtherEnd(e, start), first |-> e, used |-> {e.id}] :
            e \in {f \in es : f.from = start \/ f.to = start}}
    ELSE ExtendPaths(PathsOfLength(start, es, k - 1), es)

\* a hop range that admits one hop too many
HopRangeOneMore(max_depth) == 1..(max_depth + 1)

\* the hop counts  *1..max_depth  admits
HopRange(max_depth) == 1..max_depth

\* the rows after  WHERE related.id <> start.id
RelatedFilter(paths, start) == {p \in paths : p.end # start}

\* the rows of  RETURN DISTINCT related, r[0] as relationship : one row for
\* each different (related node, first relationship) the paths give
RelatedRows(memory_id, relationship_types, max_depth) ==
    IF memory_id \notin DOMAIN nodes THEN {}
    ELSE LET es == TypedEdges(relationship_types)
             paths == UNION {PathsOfLength(memory_id, es, k) : k \in HopRange(max_depth)}
         IN  {[related |-> p.end, relationship |-> p.first] :
                p \in RelatedFilter(paths, memory_id)}

\* ORDER BY r[0].strength DESC, related.importance DESC : row a sorts before row b
RelatedBefore(a, b) ==
    \/ a.relationship.props.strength.v > b.relationship.props.strength.v
    \/ /\ a.relationship.props.strength.v = b.relationship.props.strength.v
       /\ nodes[a.related]["importance"].v > nodes[b.related]["importance"].v

\* every order of the rows the ORDER BY allows (rows that tie come in any order)
RECURSIVE RelatedOrders(_)
RelatedOrders(rows) ==
    IF rows = {} THEN {<<>>}
    ELSE UNION {{<<x>> \o rest : rest \in RelatedOrders(rows \ {x})} :
                  x \in {y \in rows : \A z \in rows : ~RelatedBefore(z, y)}}

RelatedLimit == 20

\* LIMIT n
Limit(rows, n) == SubSeq(rows, 1, IF Len(rows) < n THEN Len(rows) ELSE n)

\* Relationship.validate_memory_ids
validate_memory_ids(v) == [ok |-> strip(v) # <<>>, v |-> strip(v)]

\* the Relationship the loop of get_related_memories builds from one row:
\* rel_data is the row's relationship, read as a mapping of its properties
RelationshipOfRow(memory_id, memory, rel_data) ==
    [from_memory_id |-> validate_memory_ids(memory_id).v,
     to_memory_id |-> validate_memory_ids(memory.v["id"].v).v,
     type |-> DictGet(rel_data, "type", PyName("RELATED_TO")).v,
     strength |-> DictGet(rel_data, "strength", PyFloat(DefaultStrength)).v,
     confidence |-> DictGet(rel_data, "confidence", PyFloat(DefaultConfidence)).v]

\* the list get_related_memories returns for the ordered rows: a row whose
\* node does not decode is skipped
RECURSIVE RelatedPairs(_, _)
RelatedPairs(memory_id, rows) ==
    IF rows = <<>> THEN <<>>
    ELSE LET memory == neo4j_to_memory(nodes[Head(rows).related], clock)
             rest == RelatedPairs(memory_id, Tail(rows))
         IN  IF Truthy(memory)
             THEN <<[memory |-> memory,
                     relationship |-> RelationshipOfRow(memory_id, memory,
                                                        Head(rows).relationship.props)]>>
                  \o rest
             ELSE rest

\* what record.data() makes of a relationship value: a mapping of its
\* properties, or a (start, type, end) tuple, depending on the driver installed;
\* a tuple has no .get, so the first row that decodes raises
RecordDataForms == {"mapping", "tuple"}

get_related_memories(memory_id, relationship_types, max_depth) ==
    \E rows \in RelatedOrders(RelatedRows(memory_id, relationship_types, max_depth)),
       form \in RecordDataForms :
        LET pairs == RelatedPairs(memory_id, Limit(rows, RelatedLimit))
            raised == form = "tuple" /\ pairs # <<>>
        IN  /\ last' = [op |-> "get_related_memories", id |-> memory_id,
                        types |-> relationship_types, max_depth |-> max_depth,
                        raised |-> raised,
                        result |-> IF raised THEN <<>> ELSE pairs]
            /\ UNCHANGED <<nodes, edges, clock, uuidSeq, relSeq, deleted, codec, schema>>

---------------------------------------------------------------------------
(* search_memories                                                         *)

LimitMax == 100
DefaultLimit == 20

SearchQueryFields ==
    {"query", "memory_types", "tags", "project_path", "languages", "frameworks",
     "min_importance", "min_confidence", "min_effectiveness", "created_after",
     "created_before", "limit"}

\* SearchQuery(**kw): the validated object, or the fields that failed
SearchQuery(kw) ==
    LET val == [f \in SearchQueryFields |->
                  CASE f \in {"memory_types", "tags", "languages", "frameworks"} ->
                         DictGet(kw, f, PyList(<<>>))
                    [] f = "limit" -> DictGet(kw, f, PyInt(DefaultLimit))
                    [] OTHER -> DictGet(kw, f, PyNone)]
        bad == {f \in SearchQueryFields :
                  CASE f \in {"query", "project_path"} -> ~ValidOptionalStr(val[f])
                    [] f \in {"memory_types", "tags", "languages", "frameworks"} ->
                         val[f].kind # "list"
                    [] f \in {"min_importance", "min_confidence", "min_effectiveness"} ->
                         ~(IsNone(val[f]) \/ ValidUnitFloat(val[f]))
                    [] f \in {"created_after", "created_before"} ->
                         ~(IsNone(val[f]) \/ val[f].kind = "datetime")
                    [] f = "limit" ->
                         ~(val[f].kind = "int" /\ val[f].v >= 1 /\ val[f].v <= LimitMax)}
    IN  [ok |-> bad = {}, errors |-> bad, v |-> val]

\* x IN list
InList(x, l) == \E i \in 1..Len(l) : l[i] = x

\* Cypher's datetime(string): the instant an ISO string denotes, UTC when the
\* string names no offset
CypherDatetime(x) == Instant(fromisoformat(x).v.v)

\* (m.title CONTAINS $query OR m.content CONTAINS $query OR m.summary CONTAINS $query);
\* with no summary property the last operand is null and the row needs one of
\* the first two
QueryCondition(m, q) ==
    \/ Contains(m["title"].v, q["query"].v)
    \/ Contains(m["content"].v, q["query"].v)
    \/ "summary" \in DOMAIN m /\ Contains(m["summary"].v, q["query"].v)

\* the WHERE clause search_memories builds: one condition for each filter it
\* reads, joined with AND, and "true" when there is none
WhereClause(m, q) ==
    /\ Truthy(q["query"]) => QueryCondition(m, q)
    /\ Truthy(q["memory_types"]) => InList(m["type"].v, q["memory_types"].v)
    /\ Truthy(q["tags"]) =>
          \E i \in 1..Len(q["tags"].v) : InList(q["tags"].v[i], m["tags"].v)
    /\ Truthy(q["project_path"]) =>
          /\ ContextKey("project_path") \in DOMAIN m
          /\ m[ContextKey("project_path")] = q["project_path"]
    /\ ~IsNone(q["min_importance"]) => m["importance"].v >= q["min_importance"].v
    /\ ~IsNone(q["min_confidence"]) => m["confidence"].v >= q["min_confidence"].v
    /\ Truthy(q["created_after"]) =>
          CypherDatetime(m["created_at"]) >= CypherDatetime(isoformat(q["created_after"]))
    /\ Truthy(q["created_before"]) =>
          CypherDatetime(m["created_at"]) <= CypherDatetime(isoformat(q["created_before"]))

\* the ids of the nodes  MATCH (m:Memory) WHERE ...  keeps
SearchRows(q) == {id \in DOMAIN nodes : WhereClause(nodes[id], q)}

\* ORDER BY m.importance DESC, m.created_at DESC : node a sorts before node b;
\* created_at is the stored ISO string, compared as a string
SearchBefore(a, b) ==
    \/ nodes[a]["importance"].v > nodes[b]["importance"].v
    \/ /\ nodes[a]["importance"].v = nodes[b]["importance"].v
       /\ IsoStringLess(nodes[b]["created_at"], nodes[a]["created_at"])

RECURSIVE SearchOrders(_)
SearchOrders(rows) ==
    IF rows = {} THEN {<<>>}
    ELSE UNION {{<<x>> \o rest : rest \in SearchOrders(rows \ {x})} :
                  x \in {y \in rows : \A z \in rows : ~SearchBefore(z, y)}}

\* the list search_memories returns for the ordered rows: a row that does not
\* decode is skipped
RECURSIVE SearchMemories(_)
SearchMemories(rows) ==
    IF rows = <<>> THEN <<>>
    ELSE LET memory == neo4j_to_memory(nodes[Head(rows)], clock)
         IN  IF Truthy(memory) THEN <<memory>> \o SearchMemories(Tail(rows))
             ELSE SearchMemories(Tail(rows))

\* search_memories(search_query), search_query being SearchQuery(**kw)
search_memories(kw) ==
    LET search_query == SearchQuery(kw)
    IN  /\ search_query.ok
        /\ \E rows \in SearchOrders(SearchRows(search_query.v)) :
              last' = [op |-> "search_memories", query |-> search_query.v,
                       result |-> SearchMemories(Limit(rows, search_query.v["limit"].v))]
        /\ UNCHANGED <<nodes, edges, clock, uuidSeq, relSeq, deleted, codec, schema>>

\* time passes: a later datetime.utcnow() reads a later instant
Tick ==
    /\ clock < MaxClock
    /\ clock' = clock + 1
    /\ UNCHANGED <<nodes, edges, uuidSeq, relSeq, last, deleted, codec, schema>>

---------------------------------------------------------------------------
(* The codec on its own: a Memory is constructed from keyword arguments,   *)
(* encoded, and the property map decoded again                             *)

Construct ==
    /\ codec.pc = "args"
    /\ LET built == Memory(codec.kw, clock)
       IN  codec' = IF built.ok
                    THEN [pc |-> "built", kw |-> codec.kw, memory |-> built.v]
                    ELSE [pc |-> "rejected", kw |-> codec.kw, errors |-> built.errors]
    /\ UNCHANGED <<nodes, edges, clock, uuidSeq, relSeq, last, deleted, schema>>

Encode ==
    /\ codec.pc = "built"
    /\ codec' = [pc |-> "encoded", kw |-> codec.kw, memory |-> codec.memory,
                 props |-> to_neo4j_properties(codec.memory.v)]
    /\ UNCHANGED <<nodes, edges, clock, uuidSeq, relSeq, last, deleted, schema>>

Decode ==
    /\ codec.pc = "encoded"
    /\ codec' = [pc |-> "decoded", kw |-> codec.kw, memory |-> codec.memory,
                 props |-> codec.props,
                 decoded |-> neo4j_to_memory(codec.props, clock)]
    /\ UNCHANGED <<nodes, edges, clock, uuidSeq, relSeq, last, deleted, schema>>

\* Memory(**kw) once more, with the tags of the Memory already constructed
Reconstruct ==
    /\ codec.pc = "built"
    /\ LET tags == codec.memory.v["tags"]
           again == Memory([k \in DOMAIN codec.kw \cup {"tags"} |->
                               IF k = "tags" THEN tags ELSE codec.kw[k]], clock)
       IN  codec' = IF again.ok
                    THEN [pc |-> "rebuilt", kw |-> codec.kw, memory |-> codec.memory,
                          again |-> again.v]
                    ELSE [pc |-> "rejected", kw |-> codec.kw, errors |-> again.errors]
    /\ UNCHANGED <<nodes, edges, clock, uuidSeq, relSeq, last, deleted, schema>>

---------------------------------------------------------------------------
(* Neo4jConnection and initialize_schema                                   *)

\* the constraints and then the indexes initialize_schema creates, in order
SchemaStatements ==
    <<"memory_id_unique", "relationship_id_unique",
      "memory_type_index", "memory_created_at_index", "memory_tags_index",
      "memory_content_index", "memory_importance_index", "memory_confidence_index",
      "memory_project_path_index">>

\* how execute_write_query can end with a driver: it returns, or the server
\* reports an error (a Neo4jError, whose message may say "already exists"),
\* or the server cannot be reached (ServiceUnavailable, which is no Neo4jError)
DriverOutcomes == {"ok", "Neo4jError: already exists", "Neo4jError", "ServiceUnavailable"}

\* ... and without one: session() raises RuntimeError
NoDriverOutcomes == {"RuntimeError"}

\* the outcomes  except Neo4jError  catches
CaughtOutcomes == {"Neo4jError: already exists", "Neo4jError"}

\* Neo4jConnection.connect
connect ==
    /\ schema.pc # "running"
    /\ ~schema.driver
    /\ schema' = [schema EXCEPT !.driver = TRUE]
    /\ UNCHANGED <<nodes, edges, clock, uuidSeq, relSeq, last, deleted, codec>>

\* Neo4jConnection.close
close ==
    /\ schema.pc # "running"
    /\ schema.driver
    /\ schema' = [schema EXCEPT !.driver = FALSE]
    /\ UNCHANGED <<nodes, edges, clock, uuidSeq, relSeq, last, deleted, codec>>

\* initialize_schema is called: nothing is executed yet
initialize_schema ==
    /\ schema.pc # "running"
    /\ schema' = [schema EXCEPT !.pc = "running", !.log = <<>>]
    /\ UNCHANGED <<nodes, edges, clock, uuidSeq, relSeq, last, deleted, codec>>

\* one turn of its loops: the next statement is executed; a caught error is
\* passed over (with a warning unless it says "already exists"), any other
\* leaves initialize_schema at once
execute_schema_statement ==
    /\ schema.pc = "running"
    /\ \E outcome \in (IF schema.driver THEN DriverOutcomes ELSE NoDriverOutcomes) :
          LET log == Append(schema.log,
                            [statement |-> SchemaStatements[Len(schema.log) + 1],
                             outcome |-> outcome])
          IN  schema' = [schema EXCEPT
                           !.log = log,
                           !.pc = IF outcome \notin CaughtOutcomes \cup {"ok"} THEN "raised"
                                  ELSE IF Len(log) = Len(SchemaStatements) THEN "completed"
                                  ELSE "running"]
    /\ UNCHANGED <<nodes, edges, clock, uuidSeq, relSeq, last, deleted, codec>>

---------------------------------------------------------------------------
(* Inputs                                                                  *)

IdA == <<"a">>
IdB == <<"b">>
IdC == <<"c">>

Python == <<"p", "y">>

\* the keyword arguments every Memory needs
PlainKw ==
    [type |-> PyName("problem"), title |-> PyStr(<<"t">>), content |-> PyStr(<<"c">>)]

WithId(kw, id) == kw @@ [id |-> PyStr(id)]

\* a context as the caller constructs it, at time t
ContextOf(kw, t) == MemoryContext(kw, t).v

GraphMemoryInputs ==
    {WithId(PlainKw, IdA) @@ [importance |-> PyFloat(9)],
     WithId(PlainKw, IdB),
     WithId(PlainKw, IdC),
     WithId(PlainKw, IdC) @@ [context |-> ContextOf([languages |-> PyList(<<Python>>)], 0)]}

GraphIds == {IdA, IdB, IdC}

RelationshipInputs ==
    {<<IdA, IdB, "SOLVES", [strength |-> PyFloat(9)]>>,
     <<IdA, IdB, "CAUSES", <<>>>>,
     <<IdB, IdC, "SOLVES", <<>>>>,
     <<IdC, IdA, "RELATED_TO", <<>>>>}

TypeFilterInputs == {PyNone, PyList(<<"SOLVES">>)}

\* max_depth: the hop count of one, and the default
DefaultMaxDepth == 2
DepthInputs == {1, DefaultMaxDepth}

\* memories for the store on its own: without an id (two of them), and with
UndecodableKw == PlainKw @@ [context |-> ContextOf([languages |-> PyList(<<Python>>)], 0)]

StoreMemoryInputs ==
    {PlainKw,
     UndecodableKw,
     WithId(PlainKw, IdA),
     WithId(PlainKw, IdA) @@ [usage_count |-> PyInt(3), summary |-> PyStr(<<"s">>)]}

\* memories for update_memory: without an id, with an empty id, and with one
UpdateMemoryInputs ==
    {PlainKw,
     WithId(PlainKw, <<>>),
     WithId(PlainKw, IdA)}

StoreIds == {IdA} \cup {uuid4(n) : n \in 1..MaxUuid}

\* memories for search: they differ in every property a filter reads
SearchMemoryKinds ==
    {[type |-> PyName("problem"), title |-> PyStr(<<"a", "b">>), content |-> PyStr(<<"c">>),
      tags |-> PyList(<< <<"x">> >>)],
     [type |-> PyName("solution"), title |-> PyStr(<<"b">>), content |-> PyStr(<<"c">>),
      summary |-> PyStr(<<"a">>), importance |-> PyFloat(9), confidence |-> PyFloat(9),
      effectiveness |-> PyFloat(1), created_at |-> PyDatetime(3, Aware(2))],
     [type |-> PyName("solution"), title |-> PyStr(<<"b">>), content |-> PyStr(<<"c">>),
      importance |-> PyFloat(9), created_at |-> PyDatetime(2, Aware(0)),
      context |-> ContextOf([project_path |-> PyStr(<<"p">>)], 0)],
     [type |-> PyName("task"), title |-> PyStr(<<"b">>), content |-> PyStr(<<"c">>),
      importance |-> PyFloat(9), created_at |-> PyDatetime(1, Naive),
      context |-> ContextOf([languages |-> PyList(<<Python>>)], 0)]}

SearchIds == {IdA, IdB}

SearchMemoryInputs == {WithId(kw, id) : kw \in SearchMemoryKinds, id \in SearchIds}

SearchQueryInputs ==
    {<<>>,
     [limit |-> PyInt(1)],
     [query |-> PyStr(<<"a">>)],
     [memory_types |-> PyList(<<"problem">>)],
     [tags |-> PyList(<< <<"x">> >>)],
     [project_path |-> PyStr(<<"p">>)],
     [languages |-> PyList(<<Python>>)],
     [frameworks |-> PyList(<< <<"f">> >>)],
     [min_importance |-> PyFloat(9)],
     [min_confidence |-> PyFloat(9)],
     [min_effectiveness |-> PyFloat(9)],
     [created_after |-> PyDatetime(2, Naive)],
     [created_before |-> PyDatetime(1, Naive)]}

\* keyword arguments for the codec: every field at, inside and outside its
\* limits, absent fields, and each kind of context
TitleInputs ==
    {<<"t">>, <<" ">>, <<" ", "A", " ">>, <<>>,
     [i \in 1..TitleMaxLength |-> "t"], [i \in 1..(TitleMaxLength + 1) |-> "t"]}

ContentInputs == {<<"c">>, <<" ", " ">>, <<>>}

SummaryInputs ==
    {<<>>, [summary |-> PyStr(<<>>)], [summary |-> PyStr(<<"s">>)],
     [summary |-> PyStr([i \in 1..(SummaryMaxLength + 1) |-> "s"])]}

TagsInputs == {<<>>, [tags |-> PyList(<< <<" ", "F", " ">>, <<" ">>, <<"b">> >>)]}

ContextInputs ==
    {<<>>} \cup
    {[context |-> ContextOf(kw, 0)] :
        kw \in {<<>>,
                 [project_path |-> PyStr(<<"p">>)],
                 [files_involved |-> PyList(<< <<"f">> >>)],
                 [languages |-> PyList(<<Python>>), timestamp |-> PyDatetime(1, Aware(1))],
                 [additional_metadata |-> PyDict([k |-> PyInt(1)])]}}

NumberInputs ==
    {<<>>,
     [importance |-> PyFloat(0), confidence |-> PyFloat(0), effectiveness |-> PyFloat(0)],
     [importance |-> PyFloat(UnitMax), confidence |-> PyFloat(UnitMax),
      effectiveness |-> PyFloat(UnitMax)],
     [importance |-> PyFloat(UnitMax + 1)],
     [importance |-> PyFloat(0 - 1)],
     [confidence |-> PyFloat(UnitMax + 1)],
     [effectiveness |-> PyFloat(UnitMax + 1)],
     [effectiveness |-> PyFloat(0 - 1)]}

OtherInputs ==
    {[type |-> PyName("problem")],
     [type |-> PyName("unknown")],
     [type |-> PyName("fix"), id |-> PyStr(IdA), usage_count |-> PyInt(3),
      created_at |-> PyDatetime(3, Aware(2)), last_accessed |-> PyDatetime(1, Naive)]}

\* tag lists: every list of up to MaxTags tags of up to MaxTagLength
\* characters, among them whitespace, an upper-case and a lower-case letter
TagChars == {" ", "A", "b"}
TagStrings == UNION {[1..n -> TagChars] : n \in 0..MaxTagLength}
TagLists == UNION {[1..n -> TagStrings] : n \in 0..MaxTags}
TagCodecInputs == {PlainKw @@ [tags |-> PyList(tags)] : tags \in TagLists}

CodecInputs ==
    {[title |-> PyStr(title), content |-> PyStr(content)]
        @@ summary @@ tags @@ context @@ numbers @@ other :
        title \in TitleInputs, content \in ContentInputs, summary \in SummaryInputs,
        tags \in TagsInputs, context \in ContextInputs, numbers \in NumberInputs,
        other \in OtherInputs}

---------------------------------------------------------------------------
(* Specifications                                                          *)

Idle == [pc |-> "idle"]

InitDatabase ==
    /\ nodes = <<>>
    /\ edges = {}
    /\ clock = 0
    /\ uuidSeq = 0
    /\ relSeq = 0
    /\ last = [op |-> "none"]
    /\ deleted = {}

\* no driver until connect() is called, and no run of initialize_schema
InitSchema == schema = [pc |-> "idle", driver |-> FALSE, log |-> <<>>]

Init ==
    /\ InitDatabase
    /\ codec = Idle
    /\ InitSchema

\* the graph operations
Next ==
    \/ \E kw \in GraphMemoryInputs : store_memory(kw, clock)
    \/ \E id \in GraphIds : get_memory(id)
    \/ \E id \in GraphIds : delete_memory(id)
    \/ \E r \in RelationshipInputs : create_relationship(r[1], r[2], r[3], r[4])
    \/ \E id \in GraphIds, types \in TypeFilterInputs, d \in DepthInputs :
          get_related_memories(id, types, d)

Spec == Init /\ [][Next]_vars

\* when the caller constructed the memory it passes: a memory without an id
\* at any time up to now, one with an id just now
ConstructionTimes(kw) == IF "id" \in DOMAIN kw THEN {clock} ELSE 0..clock

\* the store on its own, with the clock running
StoreNext ==
    \/ Tick
    \/ \E kw \in StoreMemoryInputs : \E t \in ConstructionTimes(kw) : store_memory(kw, t)
    \/ \E kw \in UpdateMemoryInputs : update_memory(kw, clock)
    \/ \E id \in StoreIds : get_memory(id)
    \/ \E id \in StoreIds : delete_memory(id)

StoreSpec == Init /\ [][StoreNext]_vars

\* search over stored memories
SearchNext ==
    \/ \E kw \in SearchMemoryInputs : store_memory(kw, clock)
    \/ \E id \in SearchIds : delete_memory(id)
    \/ \E kw \in SearchQueryInputs : search_memories(kw)

SearchSpec == Init /\ [][SearchNext]_vars

\* the codec on its own, for every input
CodecInit ==
    /\ InitDatabase
    /\ \E kw \in CodecInputs : codec = [pc |-> "args", kw |-> kw]
    /\ InitSchema

CodecNext ==
    \/ Construct
    \/ Encode
    \/ Decode

CodecSpec == CodecInit /\ [][CodecNext]_vars

\* tag normalisation on its own, for every tag list
TagInit ==
    /\ InitDatabase
    /\ \E kw \in TagCodecInputs : codec = [pc |-> "args", kw |-> kw]
    /\ InitSchema

TagNext ==
    \/ Construct
    \/ Reconstruct

TagSpec == TagInit /\ [][TagNext]_vars

\* the connection and the schema on their own
SchemaNext ==
    \/ connect
    \/ close
    \/ initialize_schema
    \/ execute_schema_statement

SchemaSpec == Init /\ [][SchemaNext]_vars

---------------------------------------------------------------------------
(* Properties                                                              *)

\* the value of field f of a Memory or a MemoryContext object
Field(obj, f) == obj.v[f]

\* C1: for every valid Memory m, decoding the property map that
\* to_neo4j_properties produces for m yields a Memory, not None, and every
\* field of it equals m's, except the list and map fields of the context.
\* (Stated for memories whose title and content are not empty.)
C1_RoundTrip ==
    (/\ codec.pc = "decoded"
     /\ Field(codec.memory, "title").v # <<>>
     /\ Field(codec.memory, "content").v # <<>>)
    => /\ codec.decoded.kind = "Memory"
       /\ \A f \in MemoryFields \ {"context"} :
             Field(codec.decoded, f) = Field(codec.memory, f)
       /\ IsNone(Field(codec.decoded, "context")) <=> IsNone(Field(codec.memory, "context"))
       /\ ~IsNone(Field(codec.memory, "context")) =>
             \A f \in ContextStrFields \cup {"timestamp"} :
                Field(Field(codec.decoded, "context"), f)
                   = Field(Field(codec.memory, "context"), f)

\* C10: every successfully constructed Memory has a trimmed title of 1 to 200
\* characters, a trimmed non-empty content, and importance, confidence and,
\* when set, effectiveness within [0.0, 1.0]; a whitespace-only title or
\* content is rejected.
C10_ConstructedIsValid ==
    codec.pc = "built"
    => LET m == codec.memory
       IN  /\ strip(codec.kw["title"].v) # <<>>
           /\ strip(codec.kw["content"].v) # <<>>
           /\ Field(m, "title").v = strip(Field(m, "title").v)
           /\ Len(Field(m, "title").v) >= 1
           /\ Len(Field(m, "title").v) <= TitleMaxLength
           /\ Field(m, "content").v = strip(Field(m, "content").v)
           /\ Len(Field(m, "content").v) >= 1
           /\ \A f \in {"importance", "confidence"} :
                 Field(m, f).v >= 0 /\ Field(m, f).v <= UnitMax
           /\ ~IsNone(Field(m, "effectiveness")) =>
                 Field(m, "effectiveness").v >= 0 /\ Field(m, "effectiveness").v <= UnitMax

\* whether memory ids a and b are both stored
BothStored(a, b) == a \in DOMAIN nodes /\ b \in DOMAIN nodes

\* C2: a create_relationship call with an endpoint that is not stored raises
\* and leaves the set of edges as it was; it returns a relationship id only
\* when both endpoints are stored.
C2_NoDanglingRelationship ==
    [][last'.op = "create_relationship"
       => /\ ~BothStored(last'.from, last'.to)
             => last'.raised /\ IsNone(last'.result) /\ edges' = edges
          /\ ~IsNone(last'.result)
             => /\ BothStored(last'.from, last'.to)
                /\ ~last'.raised
                /\ \E e \in edges' \ edges :
                      /\ PyStr(e.id) = last'.result
                      /\ e.from = last'.from /\ e.to = last'.to
                      /\ e.type = last'.type]_vars

\* a create_relationship call has failed for a missing target while its
\* source is stored
C2_Witness ==
    /\ last.op = "create_relationship"
    /\ last.raised
    /\ last.from \in DOMAIN nodes
    /\ last.to \notin DOMAIN nodes
    /\ edges # {}

\* the ids of the memories a get_related_memories result holds
ResultIds(result) == {Field(result[i].memory, "id").v : i \in 1..Len(result)}

\* C3: once delete_memory(id) has returned and until id is stored again,
\* get_memory(id) returns None, no edge is incident to id, and
\* get_related_memories of any memory returns no pair for id.
C3_DeletedStaysGone ==
    \A id \in deleted :
       /\ IsNone(get_memory_result(id))
       /\ \A e \in edges : e.from # id /\ e.to # id
       /\ \A n \in GraphIds, types \in TypeFilterInputs, d \in DepthInputs :
             \A row \in RelatedRows(n, types, d) :
                row.related # id /\ row.relationship.from # id /\ row.relationship.to # id
       /\ last.op = "get_memory" /\ last.id = id => IsNone(last.result)
       /\ last.op = "get_related_memories" => id \notin ResultIds(last.result)

\* a memory with an incident edge was deleted, and get_related_memories of a
\* memory that still has a neighbour has been called since
C3_Witness ==
    /\ deleted # {}
    /\ relSeq > Cardinality(edges)
    /\ last.op = "get_related_memories"
    /\ last.result # <<>>

\* the memories one hop from a memory of S, along the relationships es in
\* either direction
Neighbours(S, es) ==
    {e.to : e \in {f \in es : f.from \in S}} \cup {e.from : e \in {f \in es : f.to \in S}}

\* the memories a walk of 1 to d relationships of es reaches from start
RECURSIVE ReachWithin(_, _, _)
ReachWithin(start, es, d) ==
    IF d = 1 THEN Neighbours({start}, es)
    ELSE LET near == ReachWithin(start, es, d - 1)
         IN  near \cup Neighbours(near, es)

\* C4: every memory get_related_memories(id, max_depth=d) returns differs from
\* the start memory and is connected to it by a path of 1 to d relationships
\* (of the given types, in either direction); with d = 1 a memory reachable
\* only at hop 2 is not returned.
C4_WithinDepth ==
    last.op = "get_related_memories"
    => \A id \in ResultIds(last.result) :
          /\ id # last.id
          /\ id \in ReachWithin(last.id, TypedEdges(last.types), last.max_depth)

\* get_related_memories with max_depth 1 has returned a neighbour while some
\* other memory is reachable at hop 2 only
C4_Witness ==
    /\ last.op = "get_related_memories"
    /\ last.max_depth = 1
    /\ last.result # <<>>
    /\ ReachWithin(last.id, TypedEdges(last.types), 2)
          \ (ReachWithin(last.id, TypedEdges(last.types), 1) \cup {last.id}) # {}

\* the stored edges between memories a and b, in either direction
EdgesBetween(a, b) ==
    {e \in edges : (e.from = a /\ e.to = b) \/ (e.from = b /\ e.to = a)}

\* C5: the relationship get_related_memories returns for a one-hop neighbour
\* carries the type and the strength of a stored edge between the two; after
\* create_relationship(A, B, SOLVES, strength=0.9) on two stored memories,
\* get_related_memories(A, max_depth=1) returns exactly one pair, of type
\* SOLVES and strength 0.9.
C5_RelationshipOfEdge ==
    (last.op = "get_related_memories" /\ last.max_depth = 1)
    => /\ \A i \in 1..Len(last.result) :
             \E e \in EdgesBetween(last.id, Field(last.result[i].memory, "id").v) :
                /\ last.result[i].relationship.type = e.type
                /\ last.result[i].relationship.strength = e.props.strength.v
       /\ (/\ last.id = IdA
           /\ IsNone(last.types)
           /\ BothStored(IdA, IdB)
           /\ Cardinality(edges) = 1
           /\ \E e \in edges : /\ e.from = IdA /\ e.to = IdB /\ e.type = "SOLVES"
                               /\ e.props.strength.v = 9)
          => /\ Len(last.result) = 1
             /\ last.result[1].relationship.type = "SOLVES"
             /\ last.result[1].relationship.strength = 9

\* C9: no memory id appears in more than one of the pairs
\* get_related_memories returns.
C9_OnePairPerMemory ==
    last.op = "get_related_memories"
    => \A i, j \in 1..Len(last.result) :
          i # j => Field(last.result[i].memory, "id") # Field(last.result[j].memory, "id")

\* store_memory has just stored a memory that was constructed without an id
\* and with the default created_at, updated_at and usage_count
StoredNew == last.op = "store_memory" /\ last.generated /\ last.defaults

\* C6 as stated: after storing a newly constructed memory that has no id, the
\* call has returned the generated id and get_memory of it returns a memory
\* whose created_at equals its updated_at and whose usage_count is 0.
C6_CreatedEqualsUpdated ==
    StoredNew
    => LET got == get_memory_result(last.id)
       IN  /\ last.result = PyStr(last.id)
           /\ got.kind = "Memory"
           /\ Field(got, "created_at") = Field(got, "updated_at")
           /\ Field(got, "usage_count") = PyInt(0)

\* C6 amended: after storing a newly constructed memory that has no id, the
\* call has returned the generated id, and get_memory of it returns either
\* nothing (the record does not decode) or a memory with that id, usage_count
\* 0, created_at the instant of construction and updated_at the instant
\* store_memory stamped, which is not earlier than created_at.
C6_UpdatedIsStoreTime ==
    StoredNew
    => LET got == get_memory_result(last.id)
       IN  /\ last.result = PyStr(last.id)
           /\ last.id \in DOMAIN nodes
           /\ \/ IsNone(got)
              \/ /\ got.kind = "Memory"
                 /\ Field(got, "id") = PyStr(last.id)
                 /\ Field(got, "usage_count") = PyInt(0)
                 /\ Field(got, "created_at") = utcnow(last.constructed)
                 /\ Field(got, "updated_at") = utcnow(last.stamped)
                 /\ Instant(Field(got, "updated_at").v) >= Instant(Field(got, "created_at").v)

\* a memory constructed before the clock advanced has been stored without an
\* id, and get_memory returns it with updated_at later than created_at
C6_Witness ==
    /\ StoredNew
    /\ LET got == get_memory_result(last.id)
       IN  /\ got.kind = "Memory"
           /\ Instant(Field(got, "updated_at").v) > Instant(Field(got, "created_at").v)

\* the filter fields of a SearchQuery
FilterFields == SearchQueryFields \ {"limit"}

\* filter field f of query q is populated
Populated(q, f) ==
    IF f \in {"min_importance", "min_confidence", "min_effectiveness"}
    THEN ~IsNone(q[f]) ELSE Truthy(q[f])

\* the list field f of the context of memory m, empty without a context
ContextList(m, f) ==
    IF IsNone(Field(m, "context")) THEN <<>> ELSE Field(Field(m, "context"), f).v

\* memory m satisfies the condition of filter field f of query q
Satisfies(m, q, f) ==
    CASE f = "query" ->
           \/ Contains(Field(m, "title").v, q[f].v)
           \/ Contains(Field(m, "content").v, q[f].v)
           \/ ~IsNone(Field(m, "summary")) /\ Contains(Field(m, "summary").v, q[f].v)
      [] f = "memory_types" -> InList(Field(m, "type").v, q[f].v)
      [] f = "tags" -> \E i \in 1..Len(q[f].v) : InList(q[f].v[i], Field(m, "tags").v)
      [] f = "project_path" ->
           /\ ~IsNone(Field(m, "context"))
           /\ Field(Field(m, "context"), "project_path") = q[f]
      [] f \in {"languages", "frameworks"} ->
           \E i \in 1..Len(q[f].v) : InList(q[f].v[i], ContextList(m, f))
      [] f = "min_importance" -> Field(m, "importance").v >= q[f].v
      [] f = "min_confidence" -> Field(m, "confidence").v >= q[f].v
      [] f = "min_effectiveness" ->
           ~IsNone(Field(m, "effectiveness")) /\ Field(m, "effectiveness").v >= q[f].v
      [] f = "created_after" -> Instant(Field(m, "created_at").v) >= Instant(q[f].v)
      [] f = "created_before" -> Instant(Field(m, "created_at").v) <= Instant(q[f].v)

\* the stored memories that decode, as get_memory returns them
StoredMemories ==
    {get_memory_result(id) : id \in {n \in DOMAIN nodes : ~IsNone(get_memory_result(n))}}

\* C7: every memory search_memories returns satisfies the condition of every
\* populated filter field of the query, and a query with no filter populated
\* and a limit not below the number of records returns every stored memory.
C7_EveryFilterRestricts ==
    last.op = "search_memories"
    => /\ \A i \in 1..Len(last.result) : \A f \in FilterFields :
             Populated(last.query, f) => Satisfies(last.result[i], last.query, f)
       /\ (/\ \A f \in FilterFields : ~Populated(last.query, f)
           /\ last.query["limit"].v >= Cardinality(DOMAIN nodes))
          => \A m \in StoredMemories : InList(m, last.result)

\* memory a ranks before memory b: greater importance, or equal importance
\* and a later creation time
RanksBefore(a, b) ==
    \/ Field(a, "importance").v > Field(b, "importance").v
    \/ /\ Field(a, "importance").v = Field(b, "importance").v
       /\ Instant(Field(a, "created_at").v) > Instant(Field(b, "created_at").v)

\* C8: search_memories with no filter set returns at most limit memories, in
\* the order of importance descending and then creation time descending; when
\* every stored record decodes, no stored memory left out of the result ranks
\* before a returned one.
C8_OrderedByImportanceThenCreation ==
    (last.op = "search_memories" /\ \A f \in FilterFields : ~Populated(last.query, f))
    => /\ Len(last.result) <= last.query["limit"].v
       /\ \A i, j \in 1..Len(last.result) :
             i < j => ~RanksBefore(last.result[j], last.result[i])
       /\ Cardinality(StoredMemories) = Cardinality(DOMAIN nodes)
          => \A m \in StoredMemories :
                ~InList(m, last.result)
                => \A i \in 1..Len(last.result) : ~RanksBefore(m, last.result[i])

\* C11: the property map to_neo4j_properties produces for a valid Memory has
\* no key whose value is null and no key for an unset optional field:
\* summary, effectiveness, last_accessed and the unset scalars of the context
\* are absent, and so is every empty list or mapping of the context.
C11_NoNullProperty ==
    codec.pc \in {"encoded", "decoded"}
    => LET m == codec.memory.v
           props == codec.props
       IN  /\ \A k \in DOMAIN props : ~IsNone(props[k])
           /\ \A f \in {"summary", "effectiveness", "last_accessed"} :
                 IsNone(m[f]) => f \notin DOMAIN props
           /\ ~IsNone(m["context"])
              => \A f \in ContextFields :
                    LET value == Field(m["context"], f)
                    IN  (IsNone(value) \/ (value.kind \in {"list", "dict"} /\ ~Truthy(value)))
                        => ContextKey(f) \notin DOMAIN props

\* C12: update_memory of a memory without an id raises and changes nothing;
\* of a memory with an id it returns true exactly when a record with that id
\* was stored before the call, it never adds or removes a record, and when it
\* returns false the stored records are as they were.
C12_UpdateNeedsStoredId ==
    [][last'.op = "update_memory"
       => /\ last'.raised <=> ~Truthy(last'.given)
          /\ last'.raised => nodes' = nodes /\ edges' = edges
          /\ ~last'.raised
             => /\ last'.result <=> last'.id \in DOMAIN nodes
                /\ DOMAIN nodes' = DOMAIN nodes
                /\ ~last'.result => nodes' = nodes]_vars

\* update_memory has returned false for an id that was stored and deleted
\* before, while another record is stored
C12_Witness ==
    /\ last.op = "update_memory"
    /\ ~last.raised
    /\ ~last.result
    /\ last.id \in deleted
    /\ nodes # <<>>

\* C13: initialize_schema never ends by raising, whatever error a statement
\* raises, and when it has ended every one of its statements was attempted,
\* in order.
C13_SchemaAttemptsEveryStatement ==
    /\ schema.pc # "raised"
    /\ schema.pc = "completed"
       => /\ Len(schema.log) = Len(SchemaStatements)
          /\ \A i \in 1..Len(schema.log) : schema.log[i].statement = SchemaStatements[i]

\* a tag as validate_tags should leave it: lowercase, trimmed, not empty
NormalTag(tag) == lower(tag) = tag /\ strip(tag) = tag /\ tag # <<>>

\* C14: every tag of a constructed Memory is lowercase, has no leading or
\* trailing whitespace and is not empty, and a Memory constructed from the
\* tags of a constructed Memory has the same tag list.
C14_TagsIdempotent ==
    /\ codec.pc \in {"built", "rebuilt"}
       => \A i \in 1..Len(Field(codec.memory, "tags").v) :
             NormalTag(Field(codec.memory, "tags").v[i])
    /\ codec.pc = "rebuilt" => Field(codec.again, "tags") = Field(codec.memory, "tags")
    /\ codec.pc = "rejected" => "tags" \notin codec.errors

\* a Memory has been constructed again from tags that the first construction
\* changed: one was dropped, one trimmed and lowercased
C14_Witness ==
    /\ codec.pc = "rebuilt"
    /\ Len(Field(codec.memory, "tags").v) = 1
    /\ Len(codec.kw["tags"].v) = 2
    /\ Field(codec.memory, "tags").v[1] \notin {codec.kw["tags"].v[1], codec.kw["tags"].v[2]}

\* store_memory, or an update_memory that matched a record, has just written
\* the memory last.memory under the id last.id
Written ==
    \/ last.op = "store_memory"
    \/ last.op = "update_memory" /\ ~last.raised /\ last.result

\* C15: after a store_memory or update_memory call has written memory m under
\* an id, one record with that id is stored and get_memory of the id returns
\* the fields of m: every optional field unset in m (summary, effectiveness,
\* last_accessed, context) is unset in the result, whatever earlier writes set.
C15_LastWriteWins ==
    Written
    => LET got == get_memory_result(last.id)
       IN  /\ last.id \in DOMAIN nodes
           /\ got.kind = "Memory"
           /\ \A f \in MemoryFields : Field(got, f) = last.memory[f]

=============================================================================
